---- MODULE Spec2Model ----
(***************************************************************************)
(* A model of neko's real-time transport core:                             *)
(*   - the signaling manager (server/internal/websocket/manager.go):       *)
(*     connection admission, the per-connection read/dispatch loop, the    *)
(*     inactive-cursor aggregation loop, Start and Shutdown;               *)
(*   - the peer-connection manager (internal/webrtc/manager.go):           *)
(*     CreatePeer and the reactions it registers.                          *)
(* Every goroutine is a process with a program counter; an unbuffered      *)
(* channel send is a rendezvous of the sender with the receiving select.   *)
(***************************************************************************)
EXTENDS Integers, Sequences, FiniteSets, TLC

(***************************************************************************)
(* Bounds of the model.                                                    *)
(***************************************************************************)
NumSessions == 2
NumMembers == 1
MaxLoops == 2
MaxConns == 2
MaxPeers == 2
MaxTracks == 3
MaxMsgs == 2
MaxHandlers == 2

Sessions == 1..NumSessions
\* the sessions whose credentials the arriving connections present
Members == 1..NumMembers
Loops == 1..MaxLoops
Conns == 1..MaxConns
Peers == 1..MaxPeers
Tracks == 1..MaxTracks

\* the nil channel / nil pointer
Nil == 0

\* the elements of a sequence
Range(q) == {q[i] : i \in 1..Len(q)}

VARIABLES
    \* ---- WebSocketManagerCtx ------------------------------------------
    started,                  \* Start() has run (the reactions are registered)
    shutdown,                 \* manager.shutdown is closed
    shutdownPc,               \* position of the Shutdown() call
    wg,                       \* manager.wg: the wait-group counter
    panicked,                 \* the process panicked (close of a closed channel)
    shutdownInactiveCursors,  \* manager.shutdownInactiveCursors: Nil or a channel
    chanClosed,               \* per channel made by startInactiveCursors: closed?
    nLoops,                   \* channels (= loop goroutines) made so far
    loopPc,                   \* per loop goroutine: none, select, stopping, exited
    loopCh,                   \* per loop: the channel its select waits on
    lastEmpty,                \* per loop: the local variable lastEmpty
    warned,                   \* "already running" warnings logged
    \* ---- Session Registry (external collaborator) ----------------------
    settings,                 \* sessions.Settings()
    cursors,                  \* per session: it moved since the last pop
    \* ---- observation of the loop's broadcasts --------------------------
    lastStep,                 \* what the latest loop step popped and broadcast
    prevPopEmpty,             \* per loop: its previous tick popped nothing
    emptyRun,                 \* per loop: broadcasts in the current run of empty ticks
    finalLog,                 \* per loop: what it did since it saw the stop
    lastChange,               \* the latest step, if a settings change: its effect
    \* ---- signaling connections (connect / handle) ----------------------
    connPc,                   \* per connection: new, rejected, select, ended
    auth,                     \* per connection: what sessions.Authenticate(r) gave
    readerPc,                 \* per reader goroutine: none, read, bytes, cancel, exited
    destroyFrame,             \* per connection: the reason of its destroy frame
    installed,                \* per connection: the session ConnectWebSocketPeer
                              \* was called on with it, or Nil
    discCount,                \* per connection: DisconnectWebSocketPeer calls made
    lastEnd,                  \* the latest step, if it ended a handle: how
    lastAdmit,                \* the latest step, if a connect: what it found
    \* ---- the messages of a connection ----------------------------------
    wire,                     \* per connection: the numbered messages not yet read
    held,                     \* per reader: the number of the message it holds
    handleLog,                \* per connection: the numbered messages handle got
    dropped,                  \* per connection: a numbered message did not parse
    handlers,                 \* manager.handlers: the registered handlers
    lastMsg,                  \* the latest step, if handle got a numbered message
    \* ---- Session Registry: sessions ------------------------------------
    canConnect,               \* per session: Profile().CanConnect
    isConnected,              \* per session: State().IsConnected
    wsPeer,                   \* per session: the installed signaling connection
    graceTimer,               \* per session: a delayed disconnect is pending
    \* ---- WebRTCManagerCtx: peers (CreatePeer) --------------------------
    nPeers,                   \* connections made by newPeerConnection so far
    peerSession,              \* per connection: the session of its CreatePeer
    peerObj,                  \* per connection: its WebRTCPeerCtx was built
    connState,                \* per connection: none, new, connected, closed
    closedReported,           \* per connection: the closed reaction has run
    sigState,                 \* per connection: connection.SignalingState()
    negRegistered,            \* per connection: OnNegotiationNeeded is registered
    webrtcPeer,               \* per session: the peer installed by SetWebRTCPeer
    webrtcConnected,          \* per peer: the flag set by SetWebRTCConnected
    streamsBound,             \* per peer: its outbound tracks are bound to streams
    lastReport,               \* the latest step, if a connection-state reaction
    lastCreate,               \* the latest step, if a CreatePeer: its outcome
    lastNeg,                  \* the latest step, if a negotiation-needed reaction
    \* ---- data channels and the Cursor Sampler --------------------------
    dcState,                  \* per peer: none, connecting, open, closing, closed
    openPc,                   \* per peer: position of its OnOpen reaction
    openObs,                  \* per open channel: what its OnOpen reaction found
    imgListeners,             \* manager.curImage: the registered listeners
    posListeners,             \* manager.curPosition: the registered listeners
    host,                     \* Session Registry: the host session or Nil
    msgs,                     \* per open channel: the cursor messages received
    dangling,                 \* per peer: OnClose removed listeners not registered
    \* ---- remote tracks (OnTrack) and the passthrough slots -------------
    nTracks,                  \* remote tracks received so far
    trackPc,                  \* per track: position of its OnTrack task
    trackKind,                \* per accepted track: audio or video
    seen,                     \* per track: the slot value its task read
    stopped,                  \* per track: the flag of its stopFn
    slot,                     \* per kind: manager.micStop / manager.camStop
    sinkRunning,              \* per kind: the sink (Microphone/Webcam) runs
    lastTrack,                \* the latest step, if an OnTrack call: what it found
    ticker,                   \* per track: its PLI ticker: none, running, stopped
    pliPc,                    \* per track: its PLI goroutine: none, waiting, write
    lastPLI                   \* the latest step, if a PLI packet was written

mgrVars == <<started, shutdown, shutdownPc, wg, panicked>>
loopVars == <<shutdownInactiveCursors, chanClosed, nLoops, loopPc, loopCh,
              lastEmpty, warned>>
obsVars == <<lastStep, prevPopEmpty, emptyRun, finalLog, lastChange>>
regVars == <<settings, cursors>>
connVars == <<connPc, auth, readerPc, destroyFrame, installed,
              discCount, lastEnd, lastAdmit>>
sessVars == <<canConnect, isConnected, wsPeer, graceTimer>>
msgVars == <<wire, held, handleLog, dropped, handlers, lastMsg>>
wsVars == <<mgrVars, loopVars, obsVars, regVars, connVars, sessVars, msgVars>>
peerVars == <<nPeers, peerSession, peerObj, connState, closedReported, sigState,
              negRegistered, webrtcPeer, webrtcConnected, streamsBound,
              lastCreate, lastNeg, lastReport>>
chanVars == <<dcState, openPc, openObs, imgListeners, posListeners, host, msgs,
              dangling>>
trackVars == <<nTracks, trackPc, trackKind, seen, stopped, slot, sinkRunning,
               lastTrack, ticker, pliPc, lastPLI>>
rtcVars == <<peerVars, chanVars, trackVars>>
vars == <<wsVars, rtcVars>>

SettingsSet == [InactiveCursors : BOOLEAN, MercifulReconnect : BOOLEAN]

\* the process runs: nothing happens after a panic
Alive == ~panicked

(***************************************************************************)
(* Session Registry: PopCursors returns the buffered points of the         *)
(* sessions that moved since the last pop (a map keyed by session, here    *)
(* its set of keys) and clears every buffer.                               *)
(***************************************************************************)
PopCursors == {s \in Sessions : cursors[s]}

\* session.ID()
ID(s) == <<"session", s>>

\* the broadcast payload built from a popped map: one entry per session
SessionCursorsOf(cursorsMap) == {[ID |-> ID(s)] : s \in cursorsMap}

NoStep == [kind |-> "none", loop |-> Nil, popped |-> {}, prevEmpty |-> FALSE,
           sent |-> <<>>]

\* the error value nil
NoErr == [kind |-> "nil", code |-> 0]

\* no handle ended in the latest step
NoEnd == [conn |-> Nil, session |-> Nil, by |-> "none", err |-> NoErr,
          delayed |-> FALSE]

\* no connect ran in the latest step
NoAdmit == [conn |-> Nil, session |-> Nil, canConnect |-> FALSE,
            isConnected |-> FALSE, merciful |-> FALSE, wsPeer |-> Nil,
            graceTimer |-> FALSE, wg |-> 0]

\* the local handler (manager.handler.Message)
Local == 0

\* handle got no numbered message in the latest step
NoMsg == [conn |-> Nil, id |-> Nil, raw |-> "none", willing |-> {},
          invoked |-> <<>>, handled |-> FALSE, warned |-> FALSE,
          errLogged |-> FALSE]

\* a step in which handle gets no message and no handler is registered
NoMsgStep ==
    /\ lastMsg' = NoMsg
    /\ UNCHANGED <<wire, held, handleLog, dropped, handlers>>

\* a step that neither admits a connection nor ends a handle
NoConnStep ==
    /\ lastEnd' = NoEnd
    /\ lastAdmit' = NoAdmit

\* no settings change that has InactiveCursors on in the old or in the new
\* settings happened in the latest step
NoChange == [old |-> FALSE, new |-> FALSE, warned |-> 0, spawned |-> 0,
             closed |-> 0]

\* a step that is no step of the loop
NoLoopStep ==
    /\ lastStep' = NoStep
    /\ lastChange' = NoChange
    /\ UNCHANGED <<prevPopEmpty, emptyRun, finalLog>>

\* startInactiveCursors without the test for an installed channel
startInactiveCursorsUnguarded ==
    /\ nLoops < MaxLoops
    /\ nLoops' = nLoops + 1
    /\ shutdownInactiveCursors' = nLoops + 1
    /\ wg' = wg + 1
    /\ loopPc' = [loopPc EXCEPT ![nLoops + 1] = "select"]
    /\ loopCh' = [loopCh EXCEPT ![nLoops + 1] = nLoops + 1]
    /\ lastEmpty' = [lastEmpty EXCEPT ![nLoops + 1] = FALSE]
    /\ UNCHANGED <<chanClosed, warned, panicked>>

(***************************************************************************)
(* startInactiveCursors: refuses when a channel is installed, otherwise    *)
(* installs a fresh channel and spawns the loop goroutine (wg.Add(1)).     *)
(***************************************************************************)
startInactiveCursors ==
    IF shutdownInactiveCursors # Nil
    THEN /\ warned' = warned + 1
         /\ UNCHANGED <<shutdownInactiveCursors, chanClosed, nLoops, loopPc,
                        loopCh, lastEmpty, wg, panicked>>
    ELSE /\ nLoops < MaxLoops
         /\ nLoops' = nLoops + 1
         /\ shutdownInactiveCursors' = nLoops + 1
         /\ wg' = wg + 1
         /\ loopPc' = [loopPc EXCEPT ![nLoops + 1] = "select"]
         /\ loopCh' = [loopCh EXCEPT ![nLoops + 1] = nLoops + 1]
         /\ lastEmpty' = [lastEmpty EXCEPT ![nLoops + 1] = FALSE]
         /\ UNCHANGED <<chanClosed, warned, panicked>>

(***************************************************************************)
(* stopInactiveCursors: closes the installed channel; closing a channel    *)
(* that is already closed panics.                                          *)
(***************************************************************************)
stopInactiveCursors ==
    /\ IF shutdownInactiveCursors # Nil
       THEN IF chanClosed[shutdownInactiveCursors]
            THEN /\ panicked' = TRUE
                 /\ UNCHANGED chanClosed
            ELSE /\ chanClosed' = [chanClosed EXCEPT ![shutdownInactiveCursors] = TRUE]
                 /\ UNCHANGED panicked
       ELSE UNCHANGED <<chanClosed, panicked>>
    /\ UNCHANGED <<shutdownInactiveCursors, nLoops, loopPc, loopCh, lastEmpty,
                   warned, wg>>

(***************************************************************************)
(* Start: registers the reactions and starts the loop when the setting is  *)
(* on.                                                                     *)
(***************************************************************************)
Start ==
    /\ Alive
    /\ UNCHANGED rtcVars
    /\ NoMsgStep
    /\ ~started
    /\ started' = TRUE
    /\ IF settings.InactiveCursors
       THEN startInactiveCursors
       ELSE UNCHANGED <<loopVars, wg, panicked>>
    /\ NoLoopStep
    /\ UNCHANGED <<shutdown, shutdownPc, regVars>>
    /\ NoConnStep
    /\ UNCHANGED <<connPc, auth, readerPc, destroyFrame, installed,
                   discCount, sessVars>>

(***************************************************************************)
(* The settings-changed reaction (the registry passes the new and the old  *)
(* settings): start on the false->true edge, stop on the true->false edge. *)
(***************************************************************************)
OnSettingsChanged(new) ==
    /\ Alive
    /\ UNCHANGED rtcVars
    /\ NoMsgStep
    /\ started
    /\ LET old == settings IN
       /\ settings' = new
       /\ IF new.InactiveCursors /\ ~old.InactiveCursors
          THEN startInactiveCursors
          ELSE IF ~new.InactiveCursors /\ old.InactiveCursors
               THEN stopInactiveCursors
               ELSE UNCHANGED <<loopVars, wg, panicked>>
       /\ lastChange' =
             [old |-> old.InactiveCursors, new |-> new.InactiveCursors,
              warned |-> warned' - warned, spawned |-> nLoops' - nLoops,
              closed |-> Cardinality({l \in Loops : chanClosed'[l]})
                         - Cardinality({l \in Loops : chanClosed[l]})]
    /\ lastStep' = NoStep
    /\ UNCHANGED <<prevPopEmpty, emptyRun, finalLog>>
    /\ UNCHANGED <<started, shutdown, shutdownPc, cursors>>
    /\ NoConnStep
    /\ UNCHANGED <<connPc, auth, readerPc, destroyFrame, installed,
                   discCount, sessVars>>

(***************************************************************************)
(* Session Registry: a session's cursor moved, a point is buffered.        *)
(***************************************************************************)
CursorMoved(s) ==
    /\ Alive
    /\ UNCHANGED rtcVars
    /\ NoMsgStep
    /\ ~cursors[s]
    /\ cursors' = [cursors EXCEPT ![s] = TRUE]
    /\ NoLoopStep
    /\ UNCHANGED <<mgrVars, loopVars, settings>>
    /\ UNCHANGED <<connVars, sessVars>>

\* LoopTick with lastEmpty assigned before the suppression test
LoopTickAssignFirst(l) ==
    /\ Alive
    /\ UNCHANGED rtcVars
    /\ NoMsgStep
    /\ loopPc[l] = "select"
    /\ lastChange' = NoChange
    /\ LET cursorsMap == PopCursors
           currentEmpty == cursorsMap = {}
           skip == currentEmpty
           sent == IF skip THEN <<>> ELSE <<SessionCursorsOf(cursorsMap)>>
       IN
       /\ cursors' = [s \in Sessions |-> FALSE]
       /\ lastEmpty' = [lastEmpty EXCEPT ![l] = currentEmpty]
       /\ loopCh' = [loopCh EXCEPT ![l] = shutdownInactiveCursors]
       /\ lastStep' = [kind |-> "tick", loop |-> l, popped |-> cursorsMap,
                       prevEmpty |-> prevPopEmpty[l], sent |-> sent]
       /\ prevPopEmpty' = [prevPopEmpty EXCEPT ![l] = currentEmpty]
       /\ emptyRun' = [emptyRun EXCEPT ![l] =
                          IF currentEmpty THEN @ + Len(sent) ELSE 0]
       /\ UNCHANGED finalLog
    /\ UNCHANGED <<mgrVars, shutdownInactiveCursors, chanClosed, nLoops,
                   loopPc, warned, settings>>
    /\ UNCHANGED <<connVars, sessVars>>

(***************************************************************************)
(* The loop goroutine, case <-ticker.C.                                    *)
(***************************************************************************)
LoopTick(l) ==
    /\ Alive
    /\ UNCHANGED rtcVars
    /\ NoMsgStep
    /\ loopPc[l] = "select"
    /\ lastChange' = NoChange
    /\ LET cursorsMap == PopCursors
           currentEmpty == cursorsMap = {}
           skip == currentEmpty /\ lastEmpty[l]
           sent == IF skip THEN <<>> ELSE <<SessionCursorsOf(cursorsMap)>>
       IN
       /\ cursors' = [s \in Sessions |-> FALSE]
       /\ lastEmpty' = IF skip THEN lastEmpty
                       ELSE [lastEmpty EXCEPT ![l] = currentEmpty]
       \* the next select evaluates manager.shutdownInactiveCursors again
       /\ loopCh' = [loopCh EXCEPT ![l] = shutdownInactiveCursors]
       /\ lastStep' = [kind |-> "tick", loop |-> l, popped |-> cursorsMap,
                       prevEmpty |-> prevPopEmpty[l], sent |-> sent]
       /\ prevPopEmpty' = [prevPopEmpty EXCEPT ![l] = currentEmpty]
       /\ emptyRun' = [emptyRun EXCEPT ![l] =
                          IF currentEmpty THEN @ + Len(sent) ELSE 0]
       /\ finalLog' = IF finalLog[l] = <<>> THEN finalLog
                      ELSE [finalLog EXCEPT ![l] =
                              @ \o <<[op |-> "pop", data |-> {}]>>
                                \o [i \in 1..Len(sent) |->
                                      [op |-> "broadcast", data |-> sent[i]]]]
    /\ UNCHANGED <<mgrVars, shutdownInactiveCursors, chanClosed, nLoops,
                   loopPc, warned, settings>>
    /\ UNCHANGED <<connVars, sessVars>>

(***************************************************************************)
(* The loop goroutine, case <-manager.shutdownInactiveCursors: the field   *)
(* is cleared.                                                             *)
(***************************************************************************)
LoopObserveStop(l) ==
    /\ Alive
    /\ UNCHANGED rtcVars
    /\ NoMsgStep
    /\ loopPc[l] = "select"
    /\ lastChange' = NoChange
    /\ loopCh[l] # Nil
    /\ chanClosed[loopCh[l]]
    /\ shutdownInactiveCursors' = Nil
    /\ loopPc' = [loopPc EXCEPT ![l] = "stopping"]
    /\ finalLog' = [finalLog EXCEPT ![l] = <<[op |-> "stop", data |-> {}]>>]
    /\ lastStep' = NoStep
    /\ UNCHANGED <<mgrVars, chanClosed, nLoops, loopCh, lastEmpty, warned,
                   prevPopEmpty, emptyRun, regVars>>
    /\ UNCHANGED <<connVars, sessVars>>

\* LoopFinal broadcasting the popped entries instead of an empty list
LoopFinalSendsPopped(l) ==
    /\ Alive
    /\ UNCHANGED rtcVars
    /\ NoMsgStep
    /\ loopPc[l] = "stopping"
    /\ lastChange' = NoChange
    /\ cursors' = [s \in Sessions |-> FALSE]
    /\ lastStep' = [kind |-> "final", loop |-> l, popped |-> PopCursors,
                    prevEmpty |-> prevPopEmpty[l], sent |-> <<SessionCursorsOf(PopCursors)>>]
    /\ finalLog' = [finalLog EXCEPT ![l] =
                      @ \o <<[op |-> "pop", data |-> {}],
                             [op |-> "broadcast", data |-> SessionCursorsOf(PopCursors)]>>]
    /\ loopPc' = [loopPc EXCEPT ![l] = "exited"]
    /\ wg' = wg - 1
    \* the goroutine's variables end with it
    /\ lastEmpty' = [lastEmpty EXCEPT ![l] = FALSE]
    /\ loopCh' = [loopCh EXCEPT ![l] = Nil]
    /\ prevPopEmpty' = [prevPopEmpty EXCEPT ![l] = FALSE]
    /\ emptyRun' = [emptyRun EXCEPT ![l] = 0]
    /\ UNCHANGED <<started, shutdown, shutdownPc, panicked,
                   shutdownInactiveCursors, chanClosed, nLoops, warned,
                   settings>>
    /\ UNCHANGED <<connVars, sessVars>>

(***************************************************************************)
(* ... then the last entries are popped and dropped, one empty message is  *)
(* broadcast and the goroutine returns (wg.Done()).                        *)
(***************************************************************************)
LoopFinal(l) ==
    /\ Alive
    /\ UNCHANGED rtcVars
    /\ NoMsgStep
    /\ loopPc[l] = "stopping"
    /\ lastChange' = NoChange
    /\ cursors' = [s \in Sessions |-> FALSE]
    /\ lastStep' = [kind |-> "final", loop |-> l, popped |-> PopCursors,
                    prevEmpty |-> prevPopEmpty[l], sent |-> <<{}>>]
    /\ finalLog' = [finalLog EXCEPT ![l] =
                      @ \o <<[op |-> "pop", data |-> {}],
                             [op |-> "broadcast", data |-> {}]>>]
    /\ loopPc' = [loopPc EXCEPT ![l] = "exited"]
    /\ wg' = wg - 1
    \* the goroutine's variables end with it
    /\ lastEmpty' = [lastEmpty EXCEPT ![l] = FALSE]
    /\ loopCh' = [loopCh EXCEPT ![l] = Nil]
    /\ prevPopEmpty' = [prevPopEmpty EXCEPT ![l] = FALSE]
    /\ emptyRun' = [emptyRun EXCEPT ![l] = 0]
    /\ UNCHANGED <<started, shutdown, shutdownPc, panicked,
                   shutdownInactiveCursors, chanClosed, nLoops, warned,
                   settings>>
    /\ UNCHANGED <<connVars, sessVars>>

(***************************************************************************)
(* Shutdown: close(manager.shutdown), stopInactiveCursors(), then          *)
(* manager.wg.Wait().                                                      *)
(***************************************************************************)
ShutdownBegin ==
    /\ Alive
    /\ UNCHANGED rtcVars
    /\ NoMsgStep
    /\ started
    /\ shutdownPc = "idle"
    /\ shutdown' = TRUE
    /\ stopInactiveCursors
    /\ shutdownPc' = "waiting"
    /\ NoLoopStep
    /\ UNCHANGED <<started, regVars>>
    /\ NoConnStep
    /\ UNCHANGED <<connPc, auth, readerPc, destroyFrame, installed,
                   discCount, sessVars>>

ShutdownJoin ==
    /\ Alive
    /\ UNCHANGED rtcVars
    /\ NoMsgStep
    /\ shutdownPc = "waiting"
    /\ wg = 0
    /\ shutdownPc' = "returned"
    /\ NoLoopStep
    /\ UNCHANGED <<started, shutdown, wg, panicked, loopVars, regVars>>
    /\ NoConnStep
    /\ UNCHANGED <<connPc, auth, readerPc, destroyFrame, installed,
                   discCount, sessVars>>


(***************************************************************************)
(* Signaling connections.                                                  *)
(***************************************************************************)
\* websocket.CloseNormalClosure, websocket.CloseGoingAway and, as an example
\* of any other close code, websocket.CloseAbnormalClosure
CloseNormalClosure == 1000
CloseGoingAway == 1001
CloseAbnormalClosure == 1006
CloseCodes == {CloseNormalClosure, CloseGoingAway, CloseAbnormalClosure}

\* error values: a *websocket.CloseError with its code, any other error
CloseError(code) == [kind |-> "close", code |-> code]
OtherErr == [kind |-> "other", code |-> 0]
ReadErrors == {CloseError(code) : code \in CloseCodes} \cup {OtherErr}

\* what ReadMessage yields: a message that parses as {event, payload} or not
RawMsgs == {"json", "garbage"}

\* what sessions.Authenticate(r) yields
AuthErrors == {"invalid token", "session not found"}
NoAuth == [ok |-> FALSE, err |-> "", session |-> Nil]
AuthResults ==
    {[ok |-> FALSE, err |-> e, session |-> Nil] : e \in AuthErrors}
    \cup {[ok |-> TRUE, err |-> "", session |-> s] : s \in Members}

NoFrame == ""

(***************************************************************************)
(* peer.Destroy(reason): one final frame carrying the reason, then the     *)
(* transport is closed; a destroyed peer is not destroyed again.           *)
(***************************************************************************)
Destroy(c, reason) ==
    destroyFrame' = [destroyFrame EXCEPT ![c] =
                        IF @ = NoFrame THEN reason ELSE @]

(***************************************************************************)
(* Session Registry: ConnectWebSocketPeer installs the connection on the   *)
(* session (the one installed before is superseded);                       *)
(* DisconnectWebSocketPeer of the installed connection removes it, at once *)
(* or, when delayed, after a grace period; of a superseded one it does     *)
(* nothing.                                                                *)
(***************************************************************************)
ConnectWebSocketPeer(s, c) ==
    /\ wsPeer' = [wsPeer EXCEPT ![s] = c]
    /\ isConnected' = [isConnected EXCEPT ![s] = TRUE]
    /\ graceTimer' = [graceTimer EXCEPT ![s] = FALSE]
    /\ installed' = [installed EXCEPT ![c] = s]

DisconnectWebSocketPeer(s, c, delayed) ==
    /\ discCount' = [discCount EXCEPT ![c] = @ + 1]
    /\ IF wsPeer[s] # c
       THEN UNCHANGED <<wsPeer, isConnected, graceTimer>>
       ELSE /\ wsPeer' = [wsPeer EXCEPT ![s] = Nil]
            /\ isConnected' = [isConnected EXCEPT ![s] = delayed]
            /\ graceTimer' = [graceTimer EXCEPT ![s] = delayed]

GraceExpired(s) ==
    /\ Alive
    /\ UNCHANGED rtcVars
    /\ NoMsgStep
    /\ graceTimer[s]
    /\ graceTimer' = [graceTimer EXCEPT ![s] = FALSE]
    /\ isConnected' = [isConnected EXCEPT ![s] = FALSE]
    /\ UNCHANGED <<mgrVars, loopVars, obsVars, regVars, connPc, auth, readerPc, destroyFrame,
                   installed, discCount, canConnect,
                   wsPeer>>
    /\ NoConnStep

\* the profile of a session is changed
ProfileChanged(s) ==
    /\ Alive
    /\ UNCHANGED rtcVars
    /\ NoMsgStep
    /\ canConnect' = [canConnect EXCEPT ![s] = ~@]
    /\ UNCHANGED <<mgrVars, loopVars, obsVars, regVars, connPc, auth, readerPc, destroyFrame,
                   installed, discCount, isConnected,
                   wsPeer, graceTimer>>
    /\ NoConnStep

\* the authentication failure is only logged, the socket is left alone
connectAuthFailedSilently(c, a) ==
    /\ connPc' = [connPc EXCEPT ![c] = "rejected"]
    /\ UNCHANGED <<wg, readerPc, installed, sessVars, destroyFrame>>

(***************************************************************************)
(* connect, up to the call of handle.  Authentication failed: the peer is  *)
(* destroyed with the text of the error.                                   *)
(***************************************************************************)
connectAuthFailed(c, a) ==
    /\ Destroy(c, a.err)
    /\ connPc' = [connPc EXCEPT ![c] = "rejected"]
    /\ UNCHANGED <<wg, readerPc, installed, sessVars>>

\* the profile forbids connecting
connectDisabled(c) ==
    /\ Destroy(c, "connection disabled")
    /\ connPc' = [connPc EXCEPT ![c] = "rejected"]
    /\ UNCHANGED <<wg, readerPc, installed, sessVars>>

\* the session is connected and must not be replaced
alreadyConnectedNoMercy(s) == isConnected[s]

alreadyConnected(s) == isConnected[s] /\ ~settings.MercifulReconnect

connectAlready(c) ==
    /\ Destroy(c, "already connected")
    /\ connPc' = [connPc EXCEPT ![c] = "rejected"]
    /\ UNCHANGED <<wg, readerPc, installed, sessVars>>

\* the peer is installed; handle spawns the reader goroutine (wg.Add(1))
\* and enters its select
connectInstall(c, s) ==
    /\ ConnectWebSocketPeer(s, c)
    /\ wg' = wg + 1
    /\ readerPc' = [readerPc EXCEPT ![c] = "read"]
    /\ connPc' = [connPc EXCEPT ![c] = "select"]
    /\ UNCHANGED <<destroyFrame, canConnect>>

connect(c, a) ==
    /\ Alive
    /\ UNCHANGED rtcVars
    /\ NoMsgStep
    /\ connPc[c] = "new"
    \* connections are numbered in the order of their arrival
    /\ \A b \in Conns : b < c => connPc[b] # "new"
    /\ auth' = [auth EXCEPT ![c] = a]
    /\ IF ~a.ok THEN connectAuthFailed(c, a)
       ELSE IF ~canConnect[a.session] THEN connectDisabled(c)
       ELSE IF alreadyConnected(a.session) THEN connectAlready(c)
       ELSE connectInstall(c, a.session)
    /\ UNCHANGED <<started, shutdown, shutdownPc, panicked, loopVars, obsVars,
                   regVars, discCount>>
    /\ lastEnd' = NoEnd
    /\ lastAdmit' =
          IF ~a.ok THEN [NoAdmit EXCEPT !.conn = c]
          ELSE [conn |-> c, session |-> a.session,
                canConnect |-> canConnect[a.session],
                isConnected |-> isConnected[a.session],
                merciful |-> settings.MercifulReconnect,
                wsPeer |-> wsPeer[a.session],
                graceTimer |-> graceTimer[a.session], wg |-> wg]

\* a transport that yields the newest message first
newestMessage(w) == w[Len(w)]

\* connection.ReadMessage(): the transport yields the messages in the order
\* in which the client sent them
nextMessage(w) == Head(w)

(***************************************************************************)
(* The reader goroutine: ReadMessage returned, with a message or with an   *)
(* error; the goroutine now sends on bytes or on cancel (the value travels *)
(* with the rendezvous).  A destroyed transport yields errors only.        *)
(***************************************************************************)
ReaderRead(c, kind) ==
    /\ Alive
    /\ UNCHANGED rtcVars
    /\ readerPc[c] = "read"
    /\ kind = "msg" => destroyFrame[c] = NoFrame
    /\ IF kind = "msg" /\ wire[c] # <<>>
       THEN /\ held' = [held EXCEPT ![c] = nextMessage(wire[c])]
            /\ wire' = [wire EXCEPT ![c] = SelectSeq(@, LAMBDA x : x # held'[c])]
       ELSE UNCHANGED <<wire, held>>
    /\ UNCHANGED <<handleLog, dropped, handlers>>
    /\ lastMsg' = NoMsg
    /\ readerPc' = [readerPc EXCEPT ![c] =
                       IF kind = "msg" THEN "bytes" ELSE "cancel"]
    /\ UNCHANGED <<mgrVars, loopVars, obsVars, regVars, sessVars, connPc, auth,
                   destroyFrame, installed, discCount>>
    /\ NoConnStep

ReadKinds == {"msg", "err"}

\* the switch without its going-away case
delayedDisconnectNoGoingAway(err) ==
    IF err = NoErr THEN FALSE
    ELSE IF err.kind # "close" THEN TRUE
    ELSE IF err.code = CloseNormalClosure THEN FALSE
    ELSE TRUE

(***************************************************************************)
(* connect, after handle returned err: the disconnect is delayed unless    *)
(* err is nil or a close error with code normal-closure or going-away.     *)
(***************************************************************************)
delayedDisconnect(err) ==
    IF err = NoErr THEN FALSE
    ELSE IF err.kind # "close" THEN TRUE
    ELSE IF err.code = CloseNormalClosure THEN FALSE
    ELSE IF err.code = CloseGoingAway THEN FALSE
    ELSE TRUE

\* connect that returns without a call when handle returned nil
handleReturnsSilentOnNil(c, by, err) ==
    /\ connPc' = [connPc EXCEPT ![c] = "ended"]
    /\ IF err = NoErr
       THEN UNCHANGED <<discCount, wsPeer, isConnected, graceTimer>>
       ELSE DisconnectWebSocketPeer(auth[c].session, c, delayedDisconnect(err))
    /\ lastEnd' = [conn |-> c, session |-> auth[c].session, by |-> by,
                   err |-> err, delayed |-> delayedDisconnect(err)]
    /\ lastAdmit' = NoAdmit

\* handle returned err to connect, which makes its one call of
\* session.DisconnectWebSocketPeer(peer, delayedDisconnect)
handleReturns(c, by, err) ==
    /\ connPc' = [connPc EXCEPT ![c] = "ended"]
    /\ DisconnectWebSocketPeer(auth[c].session, c, delayedDisconnect(err))
    /\ lastEnd' = [conn |-> c, session |-> auth[c].session, by |-> by,
                   err |-> err, delayed |-> delayedDisconnect(err)]
    /\ lastAdmit' = NoAdmit

\* AddHandler(handler): the handler is appended to manager.handlers.  It is
\* called while no handle ranges over the list.
AddHandler ==
    /\ Alive
    /\ UNCHANGED rtcVars
    /\ Len(handlers) < MaxHandlers
    /\ \A c \in Conns : connPc[c] # "select"
    /\ handlers' = Append(handlers, Len(handlers) + 1)
    /\ lastMsg' = NoMsg
    /\ UNCHANGED <<wire, held, handleLog, dropped>>
    /\ UNCHANGED <<mgrVars, loopVars, obsVars, regVars, sessVars, connPc, auth,
                   readerPc, destroyFrame, installed, discCount>>
    /\ NoConnStep

\* a parser that accepts every payload
parsesAnything(raw) == TRUE

\* json.Unmarshal(raw, &data) returns no error
parses(raw) == raw = "json"

\* the loop over manager.handlers without its break
RECURSIVE rangeHandlersNoBreak(_, _, _, _)
rangeHandlersNoBreak(hs, willing, invoked, handled) ==
    IF hs = <<>> THEN [invoked |-> invoked, handled |-> handled]
    ELSE rangeHandlersNoBreak(Tail(hs), willing, Append(invoked, Head(hs)),
                              handled \/ Head(hs) \in willing)

\* for _, handler := range manager.handlers: break if handled, else
\* handled = handler(session, data); willing are the handlers that
\* report handled for this message
RECURSIVE rangeHandlers(_, _, _, _)
rangeHandlers(hs, willing, invoked, handled) ==
    IF hs = <<>> \/ handled THEN [invoked |-> invoked, handled |-> handled]
    ELSE rangeHandlers(Tail(hs), willing, Append(invoked, Head(hs)),
                       Head(hs) \in willing)

\* the message is offered to the local handler, then to manager.handlers
dispatch(hs, willing) ==
    rangeHandlers(hs, willing, <<Local>>, Local \in willing)

(***************************************************************************)
(* handle, case raw := <-bytes: the message is parsed (one that does not   *)
(* parse is logged and dropped) and dispatched, with a warning if no       *)
(* handler reports handled; the reader reads on.                           *)
(***************************************************************************)
HandleBytes(c, raw) ==
    /\ Alive
    /\ connPc[c] = "select"
    /\ readerPc[c] = "bytes"
    /\ raw \in RawMsgs
    /\ UNCHANGED rtcVars
    /\ handleLog' = IF held[c] = Nil THEN handleLog
                    ELSE [handleLog EXCEPT ![c] = Append(@, held[c])]
    /\ dropped' = IF held[c] = Nil \/ parses(raw) THEN dropped
                  ELSE [dropped EXCEPT ![c] = TRUE]
    /\ IF held[c] = Nil THEN lastMsg' = NoMsg
       ELSE
       \E willing \in SUBSET ({Local} \cup Range(handlers)) :
          LET d == dispatch(handlers, willing) IN
          lastMsg' =
             IF ~parses(raw)
             THEN [NoMsg EXCEPT !.conn = c, !.id = held[c], !.raw = raw,
                                !.errLogged = TRUE]
             ELSE [conn |-> c, id |-> held[c], raw |-> raw,
                   willing |-> willing, invoked |-> d.invoked,
                   handled |-> d.handled, warned |-> ~d.handled,
                   errLogged |-> FALSE]
    /\ held' = [held EXCEPT ![c] = Nil]
    /\ UNCHANGED <<wire, handlers>>
    /\ readerPc' = [readerPc EXCEPT ![c] = "read"]
    /\ UNCHANGED <<mgrVars, loopVars, obsVars, regVars, sessVars, connPc, auth,
                   destroyFrame, installed, discCount>>
    /\ NoConnStep

(***************************************************************************)
(* handle, case err := <-cancel: the reader ends (wg.Done()), handle       *)
(* returns the error.                                                      *)
(***************************************************************************)
HandleCancel(c, err) ==
    /\ Alive
    /\ UNCHANGED rtcVars
    /\ NoMsgStep
    /\ connPc[c] = "select"
    /\ readerPc[c] = "cancel"
    /\ err \in ReadErrors
    /\ readerPc' = [readerPc EXCEPT ![c] = "exited"]
    /\ wg' = wg - 1
    /\ handleReturns(c, "cancel", err)
    /\ UNCHANGED <<started, shutdown, shutdownPc, panicked, loopVars, obsVars,
                   regVars, canConnect, auth, destroyFrame, installed>>

(***************************************************************************)
(* handle, case <-manager.shutdown: the peer is destroyed, handle returns  *)
(* nil.                                                                    *)
(***************************************************************************)
HandleShutdown(c) ==
    /\ Alive
    /\ UNCHANGED rtcVars
    /\ NoMsgStep
    /\ connPc[c] = "select"
    /\ shutdown
    /\ Destroy(c, "connection shutdown")
    /\ handleReturns(c, "shutdown", NoErr)
    /\ UNCHANGED <<mgrVars, loopVars, obsVars, regVars, canConnect, auth,
                   readerPc, installed>>

(***************************************************************************)
(* handle, case <-ticker.C: a ping; a failed ping ends handle with the     *)
(* error of the write.                                                     *)
(***************************************************************************)
HandleTick(c, pingOk) ==
    /\ Alive
    /\ UNCHANGED rtcVars
    /\ NoMsgStep
    /\ connPc[c] = "select"
    /\ IF pingOk
       THEN /\ NoConnStep
            /\ UNCHANGED <<connPc, discCount, wsPeer, isConnected, graceTimer>>
       ELSE handleReturns(c, "ping", OtherErr)
    /\ UNCHANGED <<mgrVars, loopVars, obsVars, regVars, canConnect, auth,
                   readerPc, destroyFrame, installed>>

(***************************************************************************)
(* Peer connections: CreatePeer and the reactions it registers.            *)
(***************************************************************************)
\* where CreatePeer ends: the four early error returns, the error of the
\* initial offer, the return of the offer
CreateOutcomes == {"video not found", "connection failed", "track failed",
                   "channel failed", "offer failed", "ok"}

NoCreate == [session |-> Nil, outcome |-> "none", peer |-> Nil]
NoNeg == [peer |-> Nil, state |-> "none", sent |-> FALSE]
NoReport == [peer |-> Nil, state |-> "none"]

\* a step that is neither a CreatePeer nor a negotiation-needed reaction
NoPeerStep ==
    /\ lastCreate' = NoCreate
    /\ lastNeg' = NoNeg
    /\ lastReport' = NoReport

(***************************************************************************)
(* Session Registry: SetWebRTCPeer installs the peer on the session; the   *)
(* peer installed before is superseded and destroyed, which closes its     *)
(* connection.                                                             *)
(***************************************************************************)
SetWebRTCPeer(s, p) ==
    /\ webrtcPeer' = [webrtcPeer EXCEPT ![s] = p]
    /\ connState' = [q \in Peers |->
                        IF q = p THEN "new"
                        ELSE IF q = webrtcPeer[s] THEN "closed"
                        ELSE connState[q]]

\* the built peer is returned without being handed to the session
installPeerSkipped(s, p) ==
    /\ connState' = [connState EXCEPT ![p] = "new"]
    /\ UNCHANGED webrtcPeer

\* CreatePeer: session.SetWebRTCPeer(peer)
installPeer(s, p) == SetWebRTCPeer(s, p)

(***************************************************************************)
(* peer.CreateOffer: an offer is created and set as the local description, *)
(* or the call fails and the signaling state stays as it was.              *)
(***************************************************************************)
CreateOffer(p, ok) ==
    IF ok THEN [sigState EXCEPT ![p] = "have-local-offer"] ELSE sigState

\* newPeerConnection called before the video stream is looked up
connectionMadeFirst(outcome) == outcome # "connection failed"

\* CreatePeer got as far as a connection: the video stream was found and
\* newPeerConnection succeeded
connectionMade(outcome) ==
    outcome \notin {"video not found", "connection failed"}

(***************************************************************************)
(* CreatePeer(session, videoID).  newPeerConnection makes the connection;  *)
(* a failure of a track or of the data channel returns the error and       *)
(* leaves the connection as it is; otherwise the peer is built, the        *)
(* reactions are registered, the peer is installed on the session and the  *)
(* initial offer is created; the negotiation-needed reaction is registered *)
(* only after the initial offer was created.                               *)
(***************************************************************************)
CreatePeer(s, outcome) ==
    /\ nPeers < MaxPeers
    /\ LET p == nPeers + 1
           made == connectionMade(outcome)
           built == outcome \in {"offer failed", "ok"}
       IN
       /\ nPeers' = IF made THEN p ELSE nPeers
       /\ peerSession' = IF made THEN [peerSession EXCEPT ![p] = s]
                         ELSE peerSession
       /\ peerObj' = IF built THEN [peerObj EXCEPT ![p] = TRUE] ELSE peerObj
       /\ dcState' = IF built THEN [dcState EXCEPT ![p] = "connecting"]
                     ELSE dcState
       /\ IF built THEN installPeer(s, p)
          ELSE /\ connState' = IF made THEN [connState EXCEPT ![p] = "new"]
                               ELSE connState
               /\ UNCHANGED webrtcPeer
       /\ sigState' = IF built THEN CreateOffer(p, outcome = "ok")
                      ELSE IF made THEN [sigState EXCEPT ![p] = "stable"]
                      ELSE sigState
       /\ negRegistered' = IF outcome = "ok"
                           THEN [negRegistered EXCEPT ![p] = TRUE]
                           ELSE negRegistered
       /\ lastCreate' = [session |-> s, outcome |-> outcome,
                         peer |-> IF made THEN p ELSE Nil]
       /\ streamsBound' = IF built THEN [streamsBound EXCEPT ![p] = TRUE]
                          ELSE streamsBound
    /\ lastNeg' = NoNeg
    /\ lastReport' = NoReport
    /\ UNCHANGED <<closedReported, webrtcConnected>>
    /\ UNCHANGED <<openPc, openObs, imgListeners, posListeners, host, msgs,
                   dangling>>
    /\ UNCHANGED <<wsVars, trackVars>>

\* the states the connection reports to the reaction
ReportedStates == {"connected", "disconnected", "failed", "closed"}

\* the reaction closing the connection only when it failed
closesOnFailedOnly(state) == state = "failed"

\* the states on which the reaction calls connection.Close()
closesOn(state) == state \in {"disconnected", "failed"}

\* a connection was made for the session
HasPeer(s) == \E p \in Peers : peerSession[p] = s

(***************************************************************************)
(* The connection-state reaction.  connected: the session is told that the *)
(* peer is connected.  disconnected, failed: connection.Close().  closed:  *)
(* the session is told that the peer is not connected, the outbound tracks *)
(* are unbound from their streams.                                         *)
(***************************************************************************)
OnConnectionStateChange(p, state) ==
    /\ peerObj[p]
    /\ state \in ReportedStates
    /\ CASE state = "connected" ->
               /\ connState[p] = "new"
               /\ connState' = [connState EXCEPT ![p] = "connected"]
               /\ webrtcConnected' = [webrtcConnected EXCEPT ![p] = TRUE]
               /\ UNCHANGED <<closedReported, streamsBound>>
         [] state = "disconnected" ->
               /\ connState[p] = "connected"
               /\ connState' = [connState EXCEPT ![p] =
                                   IF closesOn(state) THEN "closed" ELSE state]
               /\ UNCHANGED <<webrtcConnected, closedReported, streamsBound>>
         [] state = "failed" ->
               /\ connState[p] \in {"new", "connected"}
               /\ connState' = [connState EXCEPT ![p] =
                                   IF closesOn(state) THEN "closed" ELSE state]
               /\ UNCHANGED <<webrtcConnected, closedReported, streamsBound>>
         [] state = "closed" ->
               /\ connState[p] = "closed"
               /\ ~closedReported[p]
               /\ closedReported' = [closedReported EXCEPT ![p] = TRUE]
               /\ webrtcConnected' = [webrtcConnected EXCEPT ![p] = FALSE]
               /\ streamsBound' = [streamsBound EXCEPT ![p] = FALSE]
               /\ UNCHANGED connState
    /\ lastReport' = [peer |-> p, state |-> state]
    /\ lastCreate' = NoCreate
    /\ lastNeg' = NoNeg
    /\ UNCHANGED <<nPeers, peerSession, peerObj, sigState, negRegistered,
                   webrtcPeer>>
    /\ UNCHANGED <<wsVars, chanVars, trackVars>>

\* the reaction without the test of the signaling state
OnNegotiationNeededUnchecked(p, offerOk) ==
    /\ negRegistered[p]
    /\ connState[p] # "closed"
    /\ sigState' = CreateOffer(p, offerOk)
    /\ lastNeg' = [peer |-> p, state |-> sigState[p], sent |-> offerOk]
    /\ lastCreate' = NoCreate
    /\ lastReport' = NoReport
    /\ UNCHANGED <<nPeers, peerSession, peerObj, connState, closedReported,
                   negRegistered, webrtcPeer, webrtcConnected,
                   streamsBound>>
    /\ UNCHANGED <<wsVars, chanVars, trackVars>>

(***************************************************************************)
(* The negotiation-needed reaction: returns when the signaling state is    *)
(* not stable; otherwise creates an offer and, unless that failed, sends   *)
(* it to the session as SIGNAL_OFFER.                                      *)
(***************************************************************************)
OnNegotiationNeeded(p, offerOk) ==
    /\ negRegistered[p]
    /\ connState[p] # "closed"
    /\ IF sigState[p] # "stable"
       THEN /\ UNCHANGED sigState
            /\ lastNeg' = [peer |-> p, state |-> sigState[p], sent |-> FALSE]
       ELSE /\ sigState' = CreateOffer(p, offerOk)
            /\ lastNeg' = [peer |-> p, state |-> sigState[p], sent |-> offerOk]
    /\ lastCreate' = NoCreate
    /\ lastReport' = NoReport
    /\ UNCHANGED <<nPeers, peerSession, peerObj, connState, closedReported,
                   negRegistered, webrtcPeer, webrtcConnected,
                   streamsBound>>
    /\ UNCHANGED <<wsVars, chanVars, trackVars>>

\* the viewer's answer is set as the remote description
SignalAnswer(p) ==
    /\ peerObj[p]
    /\ connState[p] # "closed"
    /\ sigState[p] = "have-local-offer"
    /\ sigState' = [sigState EXCEPT ![p] = "stable"]
    /\ NoPeerStep
    /\ UNCHANGED <<nPeers, peerSession, peerObj, connState, closedReported,
                   negRegistered, webrtcPeer, webrtcConnected,
                   streamsBound>>
    /\ UNCHANGED <<wsVars, chanVars, trackVars>>

(***************************************************************************)
(* Data channels and the Cursor Sampler.                                   *)
(***************************************************************************)
InitialImage == [type |-> "image", initial |-> TRUE]
InitialPosition == [type |-> "position", initial |-> TRUE]
ChangedImage == [type |-> "image", initial |-> FALSE]
ChangedPosition == [type |-> "position", initial |-> FALSE]

NoObs == [getOk |-> FALSE, isHost |-> FALSE]

\* session.IsHost()
IsHost(s) == host = s

\* what a peer received so far: the number of initial image and of initial
\* position messages, whether a change-driven message arrived, and whether
\* an initial message arrived after a change-driven one
NoMsgs == [image |-> 0, position |-> 0, changed |-> FALSE, late |-> FALSE]

Received(log, m) ==
    IF ~m.initial THEN [log EXCEPT !.changed = TRUE]
    ELSE IF m.type = "image"
         THEN [log EXCEPT !.image = @ + 1, !.late = @ \/ log.changed]
         ELSE [log EXCEPT !.position = @ + 1, !.late = @ \/ log.changed]

\* peer.SendCursorImage / peer.SendCursorPosition: the message reaches the
\* viewer when the channel is open, otherwise the send fails (and is logged)
Send(p, m) == IF dcState[p] = "open" THEN Received(msgs[p], m) ELSE msgs[p]

\* cursorPosition without the test for the host
sendsPositionAlways(p) == TRUE

\* cursorPosition: nothing is sent to the host
sendsPosition(p) == ~IsHost(peerSession[p])

\* cursorImage(entry) of peer p
cursorImage(p, m) == Send(p, m)

\* cursorPosition(x, y) of peer p
cursorPosition(p, m) == IF sendsPosition(p) THEN Send(p, m) ELSE msgs[p]

(***************************************************************************)
(* The library opens the data channel and schedules the OnOpen reaction;   *)
(* it runs the reactions of a channel as tasks of their own.               *)
(***************************************************************************)
DataChannelOpens(p) ==
    /\ dcState[p] = "connecting"
    /\ connState[p] # "closed"
    /\ dcState' = [dcState EXCEPT ![p] = "open"]
    /\ openPc' = [openPc EXCEPT ![p] = "add"]
    /\ NoPeerStep
    /\ UNCHANGED <<nPeers, peerSession, peerObj, connState, closedReported,
                   sigState, negRegistered, webrtcPeer, webrtcConnected,
                   streamsBound>>
    /\ UNCHANGED <<openObs, imgListeners, posListeners, host, msgs, dangling>>
    /\ UNCHANGED <<wsVars, trackVars>>

(***************************************************************************)
(* The library closes the open data channel and schedules the OnClose      *)
(* reaction.                                                               *)
(***************************************************************************)
DataChannelCloses(p) ==
    /\ dcState[p] = "open"
    /\ dcState' = [dcState EXCEPT ![p] = "closing"]
    \* nothing is received through a closed channel
    /\ msgs' = [msgs EXCEPT ![p] = NoMsgs]
    /\ openObs' = [openObs EXCEPT ![p] = NoObs]
    /\ NoPeerStep
    /\ UNCHANGED <<nPeers, peerSession, peerObj, connState, closedReported,
                   sigState, negRegistered, webrtcPeer, webrtcConnected,
                   streamsBound>>
    /\ UNCHANGED <<openPc, imgListeners, posListeners, host, dangling>>
    /\ UNCHANGED <<wsVars, trackVars>>

\* OnOpen registering its listeners only while the channel is open
OnOpenAddListenersIfOpen(p) ==
    /\ openPc[p] = "add"
    /\ imgListeners' = IF dcState[p] = "open" THEN imgListeners \cup {p}
                       ELSE imgListeners
    /\ posListeners' = IF dcState[p] = "open" THEN posListeners \cup {p}
                       ELSE posListeners
    /\ openPc' = [openPc EXCEPT ![p] = "image"]
    /\ NoPeerStep
    /\ UNCHANGED <<nPeers, peerSession, peerObj, connState, closedReported,
                   sigState, negRegistered, webrtcPeer, webrtcConnected,
                   streamsBound>>
    /\ UNCHANGED <<dcState, openObs, host, msgs, dangling>>
    /\ UNCHANGED <<wsVars, trackVars>>

(***************************************************************************)
(* dataChannel.OnOpen, first part: both listeners are registered.          *)
(***************************************************************************)
OnOpenAddListeners(p) ==
    /\ openPc[p] = "add"
    /\ imgListeners' = imgListeners \cup {p}
    /\ posListeners' = posListeners \cup {p}
    /\ openPc' = [openPc EXCEPT ![p] = "image"]
    /\ NoPeerStep
    /\ UNCHANGED <<nPeers, peerSession, peerObj, connState, closedReported,
                   sigState, negRegistered, webrtcPeer, webrtcConnected,
                   streamsBound>>
    /\ UNCHANGED <<dcState, openObs, host, msgs, dangling>>
    /\ UNCHANGED <<wsVars, trackVars>>

\* second part: manager.curImage.Get() and, unless it failed, cursorImage
OnOpenImage(p, getOk) ==
    /\ openPc[p] = "image"
    /\ msgs' = IF getOk THEN [msgs EXCEPT ![p] = cursorImage(p, InitialImage)]
               ELSE msgs
    /\ openObs' = IF dcState[p] = "open"
                  THEN [openObs EXCEPT ![p].getOk = getOk] ELSE openObs
    /\ openPc' = [openPc EXCEPT ![p] = "position"]
    /\ NoPeerStep
    /\ UNCHANGED <<nPeers, peerSession, peerObj, connState, closedReported,
                   sigState, negRegistered, webrtcPeer, webrtcConnected,
                   streamsBound>>
    /\ UNCHANGED <<dcState, imgListeners, posListeners, host, dangling>>
    /\ UNCHANGED <<wsVars, trackVars>>

\* third part: GetCursorPosition() and cursorPosition
OnOpenPosition(p) ==
    /\ openPc[p] = "position"
    /\ msgs' = [msgs EXCEPT ![p] = cursorPosition(p, InitialPosition)]
    /\ openObs' = IF dcState[p] = "open"
                  THEN [openObs EXCEPT ![p].isHost = IsHost(peerSession[p])]
                  ELSE openObs
    /\ openPc' = [openPc EXCEPT ![p] = "done"]
    /\ NoPeerStep
    /\ UNCHANGED <<nPeers, peerSession, peerObj, connState, closedReported,
                   sigState, negRegistered, webrtcPeer, webrtcConnected,
                   streamsBound>>
    /\ UNCHANGED <<dcState, imgListeners, posListeners, host, dangling>>
    /\ UNCHANGED <<wsVars, trackVars>>

\* dataChannel.OnClose: both listeners are removed
OnClose(p) ==
    /\ dcState[p] = "closing"
    /\ dcState' = [dcState EXCEPT ![p] = "closed"]
    /\ imgListeners' = imgListeners \ {p}
    /\ posListeners' = posListeners \ {p}
    /\ dangling' = [dangling EXCEPT ![p] =
                       p \notin imgListeners \/ p \notin posListeners]
    /\ NoPeerStep
    /\ UNCHANGED <<nPeers, peerSession, peerObj, connState, closedReported,
                   sigState, negRegistered, webrtcPeer, webrtcConnected,
                   streamsBound>>
    /\ UNCHANGED <<openPc, openObs, host, msgs>>
    /\ UNCHANGED <<wsVars, trackVars>>

\* Cursor Sampler: the image changed, every registered listener is called
ImageChanged ==
    /\ msgs' = [p \in Peers |->
                  IF p \in imgListeners THEN cursorImage(p, ChangedImage)
                  ELSE msgs[p]]
    /\ NoPeerStep
    /\ UNCHANGED <<nPeers, peerSession, peerObj, connState, closedReported,
                   sigState, negRegistered, webrtcPeer, webrtcConnected,
                   streamsBound>>
    /\ UNCHANGED <<dcState, openPc, openObs, imgListeners, posListeners, host,
                   dangling>>
    /\ UNCHANGED <<wsVars, trackVars>>

\* Cursor Sampler: the position changed, every registered listener is called
PositionChanged ==
    /\ msgs' = [p \in Peers |->
                  IF p \in posListeners THEN cursorPosition(p, ChangedPosition)
                  ELSE msgs[p]]
    /\ NoPeerStep
    /\ UNCHANGED <<nPeers, peerSession, peerObj, connState, closedReported,
                   sigState, negRegistered, webrtcPeer, webrtcConnected,
                   streamsBound>>
    /\ UNCHANGED <<dcState, openPc, openObs, imgListeners, posListeners, host,
                   dangling>>
    /\ UNCHANGED <<wsVars, trackVars>>

\* Session Registry: the host changes (h is a session or Nil)
HostChanged(h) ==
    /\ h # host
    /\ host' = h
    /\ NoPeerStep
    /\ UNCHANGED <<nPeers, peerSession, peerObj, connState, closedReported,
                   sigState, negRegistered, webrtcPeer, webrtcConnected,
                   streamsBound>>
    /\ UNCHANGED <<dcState, openPc, openObs, imgListeners, posListeners, msgs,
                   dangling>>
    /\ UNCHANGED <<wsVars, trackVars>>

(***************************************************************************)
(* Remote tracks: every OnTrack call is a task of its own.                 *)
(***************************************************************************)
Kinds == {"audio", "video"}
TrackKinds == Kinds \cup {"other"}

\* no OnTrack call began in the latest step
NoTrack == [track |-> Nil, canShareMedia |-> FALSE, slot |-> <<>>,
            sinkRunning |-> <<>>, stopped |-> <<>>]

\* no PLI packet was written in the latest step
NoPLI == [track |-> Nil, ticker |-> "none"]

\* OnTrack without the test of the profile
trackAcceptedAnyProfile(kind, canShareMedia, codecOk) ==
    codecOk /\ kind \in Kinds

\* OnTrack goes on to the slot: the profile allows media sharing, the codec
\* is known, the kind is audio or video
trackAccepted(kind, canShareMedia, codecOk) ==
    canShareMedia /\ codecOk /\ kind \in Kinds

(***************************************************************************)
(* OnTrack up to the access of the slot: the track is rejected             *)
(* (receiver.Stop()) when the profile disallows media sharing, the codec   *)
(* is unknown or the kind is neither audio nor video.                      *)
(***************************************************************************)
OnTrack(t, kind, canShareMedia, codecOk) ==
    /\ t = nTracks + 1
    /\ nTracks' = t
    /\ IF trackAccepted(kind, canShareMedia, codecOk)
       THEN /\ trackKind' = [trackKind EXCEPT ![t] = kind]
            /\ trackPc' = [trackPc EXCEPT ![t] = "slot"]
       ELSE /\ trackPc' = [trackPc EXCEPT ![t] = "rejected"]
            /\ UNCHANGED trackKind
    /\ lastTrack' = [track |-> t, canShareMedia |-> canShareMedia,
                     slot |-> slot, sinkRunning |-> sinkRunning,
                     stopped |-> stopped]
    /\ lastPLI' = NoPLI
    /\ UNCHANGED <<seen, stopped, slot, sinkRunning, ticker, pliPc>>
    /\ UNCHANGED <<wsVars, peerVars, chanVars>>

\* if manager.camStop != nil (micStop for audio)
TrackReadSlot(t) ==
    /\ lastTrack' = NoTrack
    /\ lastPLI' = NoPLI
    /\ UNCHANGED <<ticker, pliPc>>
    /\ trackPc[t] = "slot"
    /\ seen' = [seen EXCEPT ![t] = slot[trackKind[t]]]
    /\ trackPc' = [trackPc EXCEPT ![t] =
                     IF slot[trackKind[t]] = Nil THEN "write" ELSE "evict"]
    /\ UNCHANGED <<nTracks, trackKind, stopped, slot, sinkRunning>>
    /\ UNCHANGED <<wsVars, peerVars, chanVars>>

\* the track whose stopFn the task of t is running: the occupant it found
\* in the slot, or (deferred) its own
stopTarget(t) == IF trackPc[t] \in {"evict", "evicting"} THEN seen[t] ELSE t

\* where the task of t goes on after the stopFn
afterStop(t) == IF trackPc[t] \in {"evict", "evicting"} THEN "write" ELSE "done"

\* stopFn: if stopped { return }
StopFnCheck(t) ==
    /\ lastTrack' = NoTrack
    /\ lastPLI' = NoPLI
    /\ UNCHANGED <<ticker, pliPc>>
    /\ trackPc[t] \in {"evict", "exit"}
    /\ trackPc' = [trackPc EXCEPT ![t] =
                     IF stopped[stopTarget(t)] THEN afterStop(t)
                     ELSE IF @ = "evict" THEN "evicting" ELSE "exiting"]
    /\ UNCHANGED <<nTracks, trackKind, seen, stopped, slot, sinkRunning>>
    /\ UNCHANGED <<wsVars, peerVars, chanVars>>

\* stopFn: stopped = true; receiver.Stop(); srcManager.Stop()
StopFnAct(t) ==
    /\ lastTrack' = NoTrack
    /\ lastPLI' = NoPLI
    /\ UNCHANGED <<ticker, pliPc>>
    /\ trackPc[t] \in {"evicting", "exiting"}
    /\ stopped' = [stopped EXCEPT ![stopTarget(t)] = TRUE]
    /\ sinkRunning' = [sinkRunning EXCEPT ![trackKind[stopTarget(t)]] = FALSE]
    /\ trackPc' = [trackPc EXCEPT ![t] = afterStop(t)]
    /\ UNCHANGED <<nTracks, trackKind, seen, slot>>
    /\ UNCHANGED <<wsVars, peerVars, chanVars>>

\* manager.camStop = &stopFn (micStop for audio)
TrackWriteSlot(t) ==
    /\ lastTrack' = NoTrack
    /\ lastPLI' = NoPLI
    /\ UNCHANGED <<ticker, pliPc>>
    /\ trackPc[t] = "write"
    /\ slot' = [slot EXCEPT ![trackKind[t]] = t]
    /\ seen' = [seen EXCEPT ![t] = Nil]
    /\ trackPc' = [trackPc EXCEPT ![t] = "start"]
    /\ UNCHANGED <<nTracks, trackKind, stopped, sinkRunning>>
    /\ UNCHANGED <<wsVars, peerVars, chanVars>>

(***************************************************************************)
(* srcManager.Start(codec): the sink starts, or the call fails (it always  *)
(* fails when the sink is running) and the task returns.  After a start    *)
(* the task makes the PLI ticker, spawns the goroutine that ranges over    *)
(* ticker.C and enters the read loop.                                      *)
(***************************************************************************)
TrackStart(t, ok) ==
    /\ lastTrack' = NoTrack
    /\ lastPLI' = NoPLI
    /\ trackPc[t] = "start"
    /\ IF ok /\ ~sinkRunning[trackKind[t]]
       THEN /\ sinkRunning' = [sinkRunning EXCEPT ![trackKind[t]] = TRUE]
            /\ trackPc' = [trackPc EXCEPT ![t] = "reading"]
            /\ ticker' = [ticker EXCEPT ![t] = "running"]
            /\ pliPc' = [pliPc EXCEPT ![t] = "waiting"]
       ELSE /\ trackPc' = [trackPc EXCEPT ![t] = "exit"]
            /\ UNCHANGED <<sinkRunning, ticker, pliPc>>
    /\ UNCHANGED <<nTracks, trackKind, seen, stopped, slot>>
    /\ UNCHANGED <<wsVars, peerVars, chanVars>>

\* the read loop: track.Read fails, the loop ends and the task returns; the
\* first deferred call is ticker.Stop()
TrackReadFails(t) ==
    /\ lastTrack' = NoTrack
    /\ lastPLI' = NoPLI
    /\ trackPc[t] = "reading"
    /\ trackPc' = [trackPc EXCEPT ![t] = "exit"]
    /\ ticker' = [ticker EXCEPT ![t] = "stopped"]
    /\ UNCHANGED pliPc
    /\ UNCHANGED <<nTracks, trackKind, seen, stopped, slot, sinkRunning>>
    /\ UNCHANGED <<wsVars, peerVars, chanVars>>

\* the PLI goroutine, for range ticker.C: the running ticker sends a tick
\* and the goroutine receives it.  A stopped ticker sends no tick and its
\* channel is not closed.
PLIReceive(t) ==
    /\ pliPc[t] = "waiting"
    /\ ticker[t] = "running"
    /\ pliPc' = [pliPc EXCEPT ![t] = "write"]
    /\ lastTrack' = NoTrack
    /\ lastPLI' = NoPLI
    /\ UNCHANGED <<nTracks, trackPc, trackKind, seen, stopped, slot,
                   sinkRunning, ticker>>
    /\ UNCHANGED <<wsVars, peerVars, chanVars>>

\* the PLI goroutine: connection.WriteRTCP of a PictureLossIndication for
\* the track (an error is logged); then the next round of the range
PLIWrite(t) ==
    /\ pliPc[t] = "write"
    /\ pliPc' = [pliPc EXCEPT ![t] = "waiting"]
    /\ lastTrack' = NoTrack
    /\ lastPLI' = [track |-> t, ticker |-> ticker[t]]
    /\ UNCHANGED <<nTracks, trackPc, trackKind, seen, stopped, slot,
                   sinkRunning, ticker>>
    /\ UNCHANGED <<wsVars, peerVars, chanVars>>

\* the track's packets are read and pushed into the sink
Active(t) == trackPc[t] = "reading" /\ ~stopped[t]

(***************************************************************************)
(* The state of the peer-connection manager after construction.            *)
(***************************************************************************)
InitWebRTC ==
    /\ nPeers = 0
    /\ peerSession = [p \in Peers |-> Nil]
    /\ peerObj = [p \in Peers |-> FALSE]
    /\ connState = [p \in Peers |-> "none"]
    /\ closedReported = [p \in Peers |-> FALSE]
    /\ sigState = [p \in Peers |-> "none"]
    /\ negRegistered = [p \in Peers |-> FALSE]
    /\ webrtcPeer = [s \in Sessions |-> Nil]
    /\ webrtcConnected = [p \in Peers |-> FALSE]
    /\ streamsBound = [p \in Peers |-> FALSE]
    /\ lastReport = NoReport
    /\ lastCreate = NoCreate
    /\ lastNeg = NoNeg
    /\ dcState = [p \in Peers |-> "none"]
    /\ openPc = [p \in Peers |-> "idle"]
    /\ openObs = [p \in Peers |-> NoObs]
    /\ imgListeners = {}
    /\ posListeners = {}
    /\ host = Nil
    /\ msgs = [p \in Peers |-> NoMsgs]
    /\ dangling = [p \in Peers |-> FALSE]
    /\ nTracks = 0
    /\ trackPc = [t \in Tracks |-> "idle"]
    /\ trackKind = [t \in Tracks |-> "none"]
    /\ seen = [t \in Tracks |-> Nil]
    /\ stopped = [t \in Tracks |-> FALSE]
    /\ slot = [k \in Kinds |-> Nil]
    /\ sinkRunning = [k \in Kinds |-> FALSE]
    /\ lastTrack = NoTrack
    /\ ticker = [t \in Tracks |-> "none"]
    /\ pliPc = [t \in Tracks |-> "none"]
    /\ lastPLI = NoPLI

(***************************************************************************)
(* The state after New(): nothing started, no connection.                  *)
(***************************************************************************)
InitManager ==
    /\ started = FALSE
    /\ shutdown = FALSE
    /\ shutdownPc = "idle"
    /\ wg = 0
    /\ panicked = FALSE
    /\ shutdownInactiveCursors = Nil
    /\ chanClosed = [l \in Loops |-> FALSE]
    /\ nLoops = 0
    /\ loopPc = [l \in Loops |-> "none"]
    /\ loopCh = [l \in Loops |-> Nil]
    /\ lastEmpty = [l \in Loops |-> FALSE]
    /\ warned = 0
    /\ cursors = [s \in Sessions |-> FALSE]
    /\ lastStep = NoStep
    /\ prevPopEmpty = [l \in Loops |-> FALSE]
    /\ emptyRun = [l \in Loops |-> 0]
    /\ finalLog = [l \in Loops |-> <<>>]
    /\ lastChange = NoChange
    /\ connPc = [c \in Conns |-> "new"]
    /\ auth = [c \in Conns |-> NoAuth]
    /\ readerPc = [c \in Conns |-> "none"]
    /\ destroyFrame = [c \in Conns |-> NoFrame]
    /\ installed = [c \in Conns |-> Nil]
    /\ discCount = [c \in Conns |-> 0]
    /\ lastEnd = NoEnd
    /\ lastAdmit = NoAdmit
    /\ dropped = [c \in Conns |-> FALSE]
    /\ handlers = <<>>
    /\ lastMsg = NoMsg
    /\ isConnected = [s \in Sessions |-> FALSE]
    /\ wsPeer = [s \in Sessions |-> Nil]
    /\ graceTimer = [s \in Sessions |-> FALSE]
    /\ held = [c \in Conns |-> Nil]
    /\ handleLog = [c \in Conns |-> <<>>]

(***************************************************************************)
(* The inactive-cursor loop with its callers.                              *)
(***************************************************************************)
InitCursor ==
    /\ InitManager
    /\ wire = [c \in Conns |-> <<>>]
    /\ InitWebRTC
    /\ settings \in {s \in SettingsSet : ~s.MercifulReconnect}
    /\ canConnect = [s \in Sessions |-> TRUE]

NextCursor ==
    \/ Start
    \/ \E ic \in BOOLEAN :
          OnSettingsChanged([settings EXCEPT !.InactiveCursors = ic])
    \/ \E s \in Sessions : CursorMoved(s)
    \/ \E l \in Loops : LoopTick(l)
    \/ \E l \in Loops : LoopObserveStop(l)
    \/ \E l \in Loops : LoopFinal(l)
    \/ ShutdownBegin
    \/ ShutdownJoin

SpecCursor == InitCursor /\ [][NextCursor]_vars

\* the loop goroutine runs: a select whose stop case is ready takes it in
\* the end, and the code after the select is executed
FairCursor ==
    \A l \in Loops :
       /\ WF_vars(LoopObserveStop(l))
       /\ WF_vars(LoopFinal(l))

FairSpecCursor == SpecCursor /\ FairCursor

\* a connection has authenticated as session s
Authenticated(s) == \E c \in Conns : auth[c].ok /\ auth[c].session = s

\* the sessions are numbered in the order in which they first authenticate
InArrivalOrder(a) ==
    a.ok => \A r \in Members : r < a.session => Authenticated(r)

(***************************************************************************)
(* The signaling connections with Start and Shutdown.                      *)
(***************************************************************************)
InitConn ==
    /\ InitManager
    /\ wire = [c \in Conns |-> <<>>]
    /\ InitWebRTC
    /\ settings \in {s \in SettingsSet : ~s.InactiveCursors}
    /\ canConnect = [s \in Sessions |-> TRUE]

NextConn ==
    \/ Start
    \/ \E m \in BOOLEAN :
          OnSettingsChanged([settings EXCEPT !.MercifulReconnect = m])
    \/ \E s \in Members : ProfileChanged(s)
    \/ \E s \in Members : GraceExpired(s)
    \/ \E c \in Conns, a \in AuthResults : InArrivalOrder(a) /\ connect(c, a)
    \/ \E c \in Conns, kind \in ReadKinds : ReaderRead(c, kind)
    \/ \E c \in Conns, raw \in RawMsgs : HandleBytes(c, raw)
    \/ \E c \in Conns, err \in ReadErrors : HandleCancel(c, err)
    \/ \E c \in Conns : HandleShutdown(c)
    \/ \E c \in Conns, pingOk \in BOOLEAN : HandleTick(c, pingOk)
    \/ ShutdownBegin
    \/ ShutdownJoin

SpecConn == InitConn /\ [][NextConn]_vars

\* a runnable goroutine runs, a pending read returns, a waiting join
\* returns once the counter is zero
FairConn ==
    /\ \A c \in Conns :
          /\ WF_vars(\E kind \in ReadKinds : ReaderRead(c, kind))
          /\ WF_vars(\E raw \in RawMsgs : HandleBytes(c, raw))
          /\ WF_vars(\E err \in ReadErrors : HandleCancel(c, err))
          /\ WF_vars(HandleShutdown(c))
    /\ WF_vars(ShutdownJoin)

FairSpecConn == SpecConn /\ FairConn

(***************************************************************************)
(* The read/dispatch loop of connections whose clients send numbered       *)
(* messages (and then messages without a number).                          *)
(***************************************************************************)
InitOrder ==
    /\ InitManager
    /\ InitWebRTC
    /\ wire = [c \in Conns |-> [i \in 1..MaxMsgs |-> i]]
    /\ settings = [InactiveCursors |-> FALSE, MercifulReconnect |-> TRUE]
    /\ canConnect = [s \in Sessions |-> TRUE]

NextOrder ==
    \/ \E c \in Conns, a \in AuthResults :
          a.ok /\ InArrivalOrder(a) /\ connect(c, a)
    \/ \E c \in Conns, kind \in ReadKinds : ReaderRead(c, kind)
    \/ \E c \in Conns, raw \in RawMsgs : HandleBytes(c, raw)
    \/ \E c \in Conns : HandleCancel(c, CloseError(CloseNormalClosure))

SpecOrder == InitOrder /\ [][NextOrder]_vars

(***************************************************************************)
(* The dispatch of the messages to the local handler and to the handlers   *)
(* registered with AddHandler.  The messages of the first connection are   *)
(* numbered; the other connections run alongside it.                       *)
(***************************************************************************)
InitDispatch ==
    /\ InitManager
    /\ InitWebRTC
    /\ wire = [c \in Conns |-> IF c = 1 THEN [i \in 1..MaxMsgs |-> i] ELSE <<>>]
    /\ settings = [InactiveCursors |-> FALSE, MercifulReconnect |-> TRUE]
    /\ canConnect = [s \in Sessions |-> TRUE]

NextDispatch ==
    \/ AddHandler
    \/ \E c \in Conns, a \in AuthResults :
          a.ok /\ InArrivalOrder(a) /\ connect(c, a)
    \/ \E c \in Conns, kind \in ReadKinds : ReaderRead(c, kind)
    \/ \E c \in Conns, raw \in RawMsgs : HandleBytes(c, raw)
    \/ \E c \in Conns : HandleCancel(c, CloseError(CloseNormalClosure))

SpecDispatch == InitDispatch /\ [][NextDispatch]_vars

(***************************************************************************)
(* The state after construction of both managers, nothing started.         *)
(***************************************************************************)
InitRTC ==
    /\ InitManager
    /\ wire = [c \in Conns |-> <<>>]
    /\ InitWebRTC
    /\ settings = [InactiveCursors |-> FALSE, MercifulReconnect |-> FALSE]
    /\ canConnect = [s \in Sessions |-> TRUE]

(***************************************************************************)
(* Peers: creation, connection states, renegotiation.                      *)
(***************************************************************************)
NextPeer ==
    \* sessions are numbered in the order of their first connection
    \/ \E s \in Sessions, outcome \in CreateOutcomes :
          /\ \A r \in Sessions : r < s => HasPeer(r)
          /\ CreatePeer(s, outcome)
    \/ \E p \in Peers, state \in ReportedStates :
          OnConnectionStateChange(p, state)
    \/ \E p \in Peers, offerOk \in BOOLEAN : OnNegotiationNeeded(p, offerOk)
    \/ \E p \in Peers : SignalAnswer(p)

SpecPeer == InitRTC /\ [][NextPeer]_vars

\* the library reports the closed state of a closed connection
FairPeer == \A p \in Peers : WF_vars(OnConnectionStateChange(p, "closed"))

FairSpecPeer == SpecPeer /\ FairPeer

(***************************************************************************)
(* Data channels of the created peers and the Cursor Sampler.              *)
(***************************************************************************)
NextChannel ==
    \* sessions are numbered in the order of their first peer
    \/ \E s \in Sessions :
          /\ \A r \in Sessions : r < s => HasPeer(r)
          /\ CreatePeer(s, "ok")
    \/ \E p \in Peers : DataChannelOpens(p)
    \/ \E p \in Peers : DataChannelCloses(p)
    \/ \E p \in Peers : OnOpenAddListeners(p)
    \/ \E p \in Peers, getOk \in BOOLEAN : OnOpenImage(p, getOk)
    \/ \E p \in Peers : OnOpenPosition(p)
    \/ \E p \in Peers : OnClose(p)
    \/ ImageChanged
    \/ PositionChanged
    \* a host without a peer is like no host to every channel
    \/ \E h \in Sessions \cup {Nil} :
          /\ h # Nil => HasPeer(h)
          /\ HostChanged(h)

SpecChannel == InitRTC /\ [][NextChannel]_vars

(***************************************************************************)
(* Remote tracks and the two passthrough slots.                            *)
(***************************************************************************)
NextTrack ==
    \/ \E t \in Tracks, kind \in TrackKinds, canShareMedia, codecOk \in BOOLEAN :
          OnTrack(t, kind, canShareMedia, codecOk)
    \/ \E t \in Tracks : TrackReadSlot(t)
    \/ \E t \in Tracks : StopFnCheck(t)
    \/ \E t \in Tracks : StopFnAct(t)
    \/ \E t \in Tracks : TrackWriteSlot(t)
    \/ \E t \in Tracks, ok \in BOOLEAN : TrackStart(t, ok)
    \/ \E t \in Tracks : TrackReadFails(t)

SpecTrack == InitRTC /\ [][NextTrack]_vars

(***************************************************************************)
(* Remote tracks with their PLI goroutines.                                *)
(***************************************************************************)
NextPLI ==
    \/ \E t \in Tracks, kind \in Kinds, canShareMedia \in BOOLEAN :
          OnTrack(t, kind, canShareMedia, TRUE)
    \/ \E t \in Tracks : TrackReadSlot(t)
    \/ \E t \in Tracks : StopFnCheck(t)
    \/ \E t \in Tracks : StopFnAct(t)
    \/ \E t \in Tracks : TrackWriteSlot(t)
    \/ \E t \in Tracks, ok \in BOOLEAN : TrackStart(t, ok)
    \/ \E t \in Tracks : TrackReadFails(t)
    \/ \E t \in Tracks : PLIReceive(t)
    \/ \E t \in Tracks : PLIWrite(t)

SpecPLI == InitRTC /\ [][NextPLI]_vars

\* a task that can take a step takes it
FairPLI ==
    \A t \in Tracks :
       /\ WF_vars(TrackReadSlot(t))
       /\ WF_vars(StopFnCheck(t))
       /\ WF_vars(StopFnAct(t))
       /\ WF_vars(TrackWriteSlot(t))
       /\ WF_vars(\E ok \in BOOLEAN : TrackStart(t, ok))
       /\ WF_vars(PLIWrite(t))

FairSpecPLI == SpecPLI /\ FairPLI

(***************************************************************************)
(* C1: Shutdown terminates: once it waits at the wait-group join, every    *)
(* spawned task exits and the join returns.                                *)
(***************************************************************************)
ShutdownAlwaysTerminates ==
    (shutdownPc = "waiting") ~> (shutdownPc = "returned")

(***************************************************************************)
(* C8: a connection whose authentication failed was destroyed with a       *)
(* frame carrying the text of the authentication error, was never          *)
(* installed on a session, caused no DisconnectWebSocketPeer and got no    *)
(* reader or dispatch loop.                                                *)
(***************************************************************************)
AuthFailureDestroysWithErrorText ==
    \A c \in Conns :
       (connPc[c] # "new" /\ ~auth[c].ok) =>
          /\ auth[c].err \in AuthErrors
          /\ destroyFrame[c] = auth[c].err
          /\ connPc[c] = "rejected"
          /\ installed[c] = Nil
          /\ discCount[c] = 0
          /\ readerPc[c] = "none"
          /\ \A s \in Sessions : wsPeer[s] # c

\* an unauthenticated connection was destroyed with the error's text
AuthFailureSeen ==
    \E c \in Conns :
       /\ connPc[c] = "rejected"
       /\ ~auth[c].ok
       /\ destroyFrame[c] = "invalid token"

\* the connect step turned connection c away with the reason and left the
\* session as it found it
AdmissionRejected(c, reason) ==
    LET s == lastAdmit.session IN
    /\ destroyFrame[c] = reason
    /\ connPc[c] = "rejected"
    /\ isConnected[s] = lastAdmit.isConnected
    /\ wsPeer[s] = lastAdmit.wsPeer
    /\ graceTimer[s] = lastAdmit.graceTimer
    /\ readerPc[c] = "none"
    /\ installed[c] = Nil
    /\ discCount[c] = 0
    /\ wg = lastAdmit.wg

(***************************************************************************)
(* C9: admission of an authenticated connection.  Profile forbids          *)
(* connecting: destroyed with "connection disabled".  Otherwise, session   *)
(* connected and merciful reconnect off: destroyed with "already           *)
(* connected".  In both cases the session's connection state is left as it *)
(* was and no reader or dispatch loop starts.  Only otherwise is the       *)
(* connection installed on the session.  (Stated on the state right after  *)
(* a connect step, against what the step found.)                           *)
(***************************************************************************)
AdmissionRule ==
    (lastAdmit.conn # Nil /\ lastAdmit.session # Nil) =>
       LET c == lastAdmit.conn
           s == lastAdmit.session
       IN
       /\ auth[c].ok
       /\ auth[c].session = s
       /\ IF ~lastAdmit.canConnect
          THEN AdmissionRejected(c, "connection disabled")
          ELSE IF lastAdmit.isConnected /\ ~lastAdmit.merciful
          THEN AdmissionRejected(c, "already connected")
          ELSE /\ wsPeer[s] = c
               /\ isConnected[s]
               /\ installed[c] # Nil
               /\ connPc[c] = "select"
               /\ readerPc[c] = "read"
               /\ destroyFrame[c] = NoFrame
               /\ wg = lastAdmit.wg + 1

\* a second connection of a connected session was turned away and the first
\* one stayed installed
AlreadyConnectedRejected ==
    \E c \in Conns :
       /\ lastAdmit.conn = c
       /\ connPc[c] = "rejected"
       /\ auth[c].ok
       /\ destroyFrame[c] = "already connected"
       /\ wsPeer[auth[c].session] \notin {Nil, c}
       /\ isConnected[auth[c].session]

(***************************************************************************)
(* C10: when handle has returned, exactly one disconnect was reported: not *)
(* delayed for nil (which only the shutdown case returns) and for a close  *)
(* error with code normal-closure or going-away, delayed for every other   *)
(* close code and every other error, a failed ping included.               *)
(***************************************************************************)
DisconnectClassification ==
    /\ \A c \in Conns : discCount[c] = IF connPc[c] = "ended" THEN 1 ELSE 0
    /\ lastEnd.conn # Nil =>
          /\ connPc[lastEnd.conn] = "ended"
          /\ (lastEnd.err = NoErr) = (lastEnd.by = "shutdown")
          /\ lastEnd.by = "ping" => lastEnd.err.kind = "other"
          /\ lastEnd.delayed =
                ~ \/ lastEnd.err = NoErr
                  \/ lastEnd.err = CloseError(CloseNormalClosure)
                  \/ lastEnd.err = CloseError(CloseGoingAway)

\* a going-away closure was reported as a disconnect that is not delayed
GoingAwayNotDelayed ==
    /\ lastEnd.conn # Nil
    /\ lastEnd.by = "cancel"
    /\ lastEnd.err = CloseError(CloseGoingAway)
    /\ ~lastEnd.delayed
    /\ discCount[lastEnd.conn] = 1
\* what a loop did since it saw the stop: nothing before it saw it, then
\* one pop and one broadcast of the empty list, and then it returned
TerminalBroadcast ==
    \A l \in Loops :
       /\ loopPc[l] \in {"none", "select"} => finalLog[l] = <<>>
       /\ loopPc[l] \in {"stopping", "exited"} =>
             /\ chanClosed[l]
             /\ finalLog[l][1].op = "stop"
       /\ loopPc[l] = "stopping" => Len(finalLog[l]) = 1
       /\ loopPc[l] = "exited" =>
             /\ Len(finalLog[l]) = 3
             /\ finalLog[l][2].op = "pop"
             /\ finalLog[l][3] = [op |-> "broadcast", data |-> {}]
       /\ (lastStep.kind = "final" /\ lastStep.loop = l) =>
             /\ lastStep.sent = <<{}>>
             /\ loopPc[l] = "exited"
             /\ PopCursors = {}

TickBroadcastsOnceUnlessRepeatedEmpty ==
    /\ lastStep.kind = "tick" =>
          /\ PopCursors = {}
          /\ IF lastStep.popped = {} /\ lastStep.prevEmpty
             THEN lastStep.sent = <<>>
             ELSE /\ Len(lastStep.sent) = 1
                  /\ {m.ID : m \in lastStep.sent[1]}
                        = {ID(s) : s \in lastStep.popped}
    /\ \A l \in Loops : emptyRun[l] <= 1

\* a second empty tick in a row was suppressed
RepeatedEmptyTickSuppressed ==
    /\ lastStep.kind = "tick"
    /\ lastStep.popped = {}
    /\ lastStep.prevEmpty
    /\ lastStep.sent = <<>>
    /\ emptyRun[lastStep.loop] = 1

(***************************************************************************)
(* C2: for each media kind, no two remote tracks of that kind are active   *)
(* at the same time (read and pushed into the sink of that kind, and not   *)
(* stopped), whatever the interleaving of the OnTrack tasks.               *)
(***************************************************************************)
OneActiveSinkPerKind ==
    \A t, u \in Tracks :
       (t # u /\ Active(t) /\ Active(u)) => trackKind[t] # trackKind[u]

(***************************************************************************)
(* C5: the negotiation-needed reaction creates and sends an offer only     *)
(* when the signaling state is stable as it fires; fired in another state  *)
(* it sends nothing and leaves the signaling state as it is; and a stable  *)
(* peer gets a new local offer only by a firing of the reaction.           *)
(***************************************************************************)
RenegotiationOnlyWhenStable ==
    [][\A p \in Peers :
         LET fired == lastNeg'.peer = p IN
         /\ fired => /\ negRegistered[p]
                     /\ lastNeg'.state = sigState[p]
         /\ (fired /\ sigState[p] # "stable") =>
               /\ ~lastNeg'.sent
               /\ sigState'[p] = sigState[p]
         /\ (fired /\ lastNeg'.sent) =>
               /\ sigState[p] = "stable"
               /\ sigState'[p] = "have-local-offer"
         /\ (sigState[p] = "stable" /\ sigState'[p] # "stable") =>
               /\ fired
               /\ lastNeg'.sent]_vars

\* the reaction fired while an offer was outstanding and was dropped
RenegotiationDropped ==
    /\ lastNeg.peer # Nil
    /\ lastNeg.state = "have-local-offer"
    /\ ~lastNeg.sent
    /\ sigState[lastNeg.peer] = "have-local-offer"

\* the live peers of a session: built, and the connection not closed
LivePeers(s) ==
    {p \in Peers : peerObj[p] /\ peerSession[p] = s /\ connState[p] # "closed"}

InitialCursorBeforeChanges ==
    \A p \in Peers :
       (openPc[p] = "done" /\ dcState[p] = "open") =>
          /\ msgs[p].image = 1
          /\ msgs[p].position = 1
          /\ ~msgs[p].late

(***************************************************************************)
(* C7, amended: a data channel whose open reaction has ended (and which is *)
(* still open) received exactly one initial image if reading the current   *)
(* image succeeded and none otherwise, and exactly one initial position if *)
(* its session was not the host and none otherwise; before the reaction    *)
(* reaches the respective step none of them was sent.                      *)
(***************************************************************************)
InitialCursorWhenAvailable ==
    \A p \in Peers :
       /\ openPc[p] \in {"idle", "add", "image"} => msgs[p].image = 0
       /\ openPc[p] \in {"idle", "add", "image", "position"} =>
             msgs[p].position = 0
       /\ openPc[p] \in {"idle", "add"} => msgs[p] = NoMsgs
       /\ (openPc[p] = "done" /\ dcState[p] = "open") =>
             /\ msgs[p].image = IF openObs[p].getOk THEN 1 ELSE 0
             /\ msgs[p].position = IF openObs[p].isHost THEN 0 ELSE 1

\* the host's channel got a change-driven message before its initial image
\* and got no initial position
HostChannelChangeFirst ==
    \E p \in Peers :
       /\ openPc[p] = "done"
       /\ dcState[p] = "open"
       /\ openObs[p].isHost
       /\ msgs[p].position = 0
       /\ msgs[p].image = 1
       /\ msgs[p].late

\* the loop goroutines that iterate in their select
Selecting == {l \in Loops : loopPc[l] = "select"}

\* the loop goroutines that have not returned
LoopTasks == {l \in Loops : loopPc[l] \in {"select", "stopping"}}

(***************************************************************************)
(* C11: at every moment at most one instance of the inactive-cursor loop   *)
(* is running, and a settings change with InactiveCursors on before and    *)
(* after starts no second instance, logs the "already running" warning and *)
(* leaves exactly one loop running.                                        *)
(***************************************************************************)
OneLoopAndWarningOnReassert ==
    /\ Cardinality(LoopTasks) <= 1
    /\ (lastChange.old /\ lastChange.new) =>
          /\ lastChange.spawned = 0
          /\ lastChange.warned = 1
          /\ Cardinality(LoopTasks) = 1

(***************************************************************************)
(* C11, amended: at every moment at most one loop instance iterates in its *)
(* select (instances that have seen their stop may still be doing their    *)
(* final pop and broadcast next to it); a settings change with             *)
(* InactiveCursors on before and after calls neither start nor stop: it    *)
(* starts no loop, closes no channel and logs no warning; the warning is   *)
(* logged only by a start on the off-to-on edge (or by Start) that finds   *)
(* the channel still installed, and then no loop is started.               *)
(***************************************************************************)
OneLoopSelectingReassertIgnored ==
    /\ Cardinality(Selecting) <= 1
    /\ \A l \in LoopTasks \ Selecting : chanClosed[l]
    /\ (lastChange.old /\ lastChange.new) =>
          /\ lastChange.spawned = 0
          /\ lastChange.warned = 0
          /\ lastChange.closed = 0
    /\ lastChange.warned = 1 =>
          /\ ~lastChange.old
          /\ lastChange.new
          /\ lastChange.spawned = 0
          /\ shutdownInactiveCursors # Nil
    /\ lastChange.spawned = 1 => (~lastChange.old /\ lastChange.new)

\* InactiveCursors was set on while it was on and a loop was running: one
\* loop runs, nothing was logged
ReassertWithLoopRunning ==
    /\ lastChange.old
    /\ lastChange.new
    /\ lastChange.warned = 0
    /\ Cardinality(Selecting) = 1
    /\ Cardinality(LoopTasks) = 1
    /\ shutdownInactiveCursors \in Selecting
    /\ ~chanClosed[shutdownInactiveCursors]

(***************************************************************************)
(* C18: the loop follows the setting: while the manager is started and not *)
(* shut down, InactiveCursors on leads to a loop running (or to the        *)
(* setting being turned off again), and InactiveCursors off leads to no    *)
(* loop running (or to the setting being turned on again); so once no more *)
(* settings changes arrive, a loop runs if and only if the setting is on.  *)
(***************************************************************************)
LoopFollowsSetting ==
    /\ (started /\ settings.InactiveCursors)
          ~> (Selecting # {} \/ ~settings.InactiveCursors \/ shutdown
              \/ panicked)
    /\ (started /\ ~settings.InactiveCursors)
          ~> (LoopTasks = {} \/ settings.InactiveCursors \/ shutdown
              \/ panicked)

(***************************************************************************)
(* C19: the stop channel of the inactive-cursor loop is closed at most     *)
(* once: stopInactiveCursors never closes a channel that is closed (which  *)
(* would panic), whatever the order of stop requests, Shutdown and the     *)
(* loop's clearing of the channel reference.                               *)
(***************************************************************************)
StopChannelClosedOnce == ~panicked

(***************************************************************************)
(* C12: a CreatePeer whose video stream does not exist ends with the       *)
(* stream-not-found error before anything is built: no connection, no      *)
(* track, no data channel, no peer, SetWebRTCPeer is not called, and every *)
(* session, peer and channel is left as it was.                            *)
(***************************************************************************)
VideoNotFoundBuildsNothing ==
    [][lastCreate'.outcome = "video not found" =>
          /\ lastCreate'.peer = Nil
          /\ UNCHANGED <<nPeers, peerSession, peerObj, connState,
                         closedReported, sigState, negRegistered, webrtcPeer,
                         webrtcConnected, streamsBound, chanVars,
                         trackVars>>]_vars

\* the stream was not found for one session while another session holds a
\* peer that was created before
VideoNotFoundNextToPeer ==
    /\ lastCreate.outcome = "video not found"
    /\ lastCreate.peer = Nil
    /\ \E s \in Sessions \ {lastCreate.session} :
          /\ webrtcPeer[s] # Nil
          /\ connState[webrtcPeer[s]] = "connected"
    /\ webrtcPeer[lastCreate.session] = Nil

(***************************************************************************)
(* C13: a CreatePeer that fails after the connection was made (a track,    *)
(* the data channel or the initial offer failed) releases what it built:   *)
(* the connection is closed and the session does not hold the failed peer. *)
(***************************************************************************)
FailedCreateReleases ==
    lastCreate.outcome \in {"track failed", "channel failed", "offer failed"} =>
       /\ connState[lastCreate.peer] = "closed"
       /\ webrtcPeer[lastCreate.session] # lastCreate.peer

(***************************************************************************)
(* C14: a remote track of a session whose profile forbids media sharing is *)
(* rejected (the receiver is stopped and the task returns): no slot is     *)
(* occupied or changed, no stop routine is run, no sink is started or      *)
(* stopped; and a rejected track never occupies a slot later.              *)
(***************************************************************************)
MediaSharingDisabledRejected ==
    /\ (lastTrack.track # Nil /\ ~lastTrack.canShareMedia) =>
          /\ trackPc[lastTrack.track] = "rejected"
          /\ slot = lastTrack.slot
          /\ sinkRunning = lastTrack.sinkRunning
          /\ stopped = lastTrack.stopped
    /\ \A t \in Tracks :
          trackPc[t] = "rejected" =>
             /\ trackKind[t] = "none"
             /\ ~stopped[t]
             /\ \A k \in Kinds : slot[k] # t
             /\ \A u \in Tracks : seen[u] # t

\* a track was rejected for its profile while another track occupies a slot
\* and feeds the sink
RejectedNextToOccupant ==
    /\ lastTrack.track # Nil
    /\ ~lastTrack.canShareMedia
    /\ trackPc[lastTrack.track] = "rejected"
    /\ \E u \in Tracks :
          /\ Active(u)
          /\ slot[trackKind[u]] = u
          /\ sinkRunning[trackKind[u]]

(***************************************************************************)
(* C17: the stop routine of a track takes effect at most once: its body    *)
(* (stopped = true, receiver.Stop(), srcManager.Stop()) is never run for a *)
(* track that is already stopped, whichever tasks call it.                 *)
(***************************************************************************)
StopTakesEffectOnce ==
    [][\A t \in Tracks :
          (trackPc[t] \in {"evicting", "exiting"} /\ trackPc'[t] # trackPc[t])
             => ~stopped[stopTarget(t)]]_vars

\* the listeners of peer p are registered on a feed
Registered(p) == p \in imgListeners \/ p \in posListeners

MessagesHandledInReadOrder ==
    \A c \in Conns :
       LET n == Len(handleLog[c])
           h == IF held[c] = Nil THEN 0 ELSE 1
       IN
       /\ \A i \in 1..n : handleLog[c][i] = i
       /\ held[c] # Nil => (held[c] = n + 1 /\ readerPc[c] = "bytes")
       /\ wire[c] = [i \in 1..(MaxMsgs - n - h) |-> n + h + i]

\* all numbered messages of two connections were dealt with, the reader of
\* one of them holds a further message
AllMessagesHandledInOrder ==
    \E c, d \in Conns :
       /\ c # d
       /\ handleLog[c] = [i \in 1..MaxMsgs |-> i]
       /\ handleLog[d] = [i \in 1..MaxMsgs |-> i]
       /\ readerPc[c] = "bytes"
       /\ connPc[c] = "select"

\* what the connection-state reaction did, by the reported state, and what
\* holds of a peer whose closed state was reported
StateReactions ==
    /\ lastReport.peer # Nil =>
          LET p == lastReport.peer IN
          CASE lastReport.state = "connected" ->
                  webrtcConnected[p] /\ connState[p] = "connected"
            [] lastReport.state \in {"disconnected", "failed"} ->
                  connState[p] = "closed"
            [] lastReport.state = "closed" -> closedReported[p]
    /\ \A p \in Peers :
          /\ closedReported[p] =>
                /\ ~webrtcConnected[p]
                /\ ~streamsBound[p]
                /\ connState[p] = "closed"
          /\ webrtcConnected[p] => connState[p] \in {"connected", "closed"}
          /\ (peerObj[p] /\ ~closedReported[p]) => streamsBound[p]

InstallFollowedByOneDisconnect ==
    /\ \A c \in Conns :
          /\ connPc[c] \in {"new", "rejected"} =>
                installed[c] = Nil /\ discCount[c] = 0
          /\ connPc[c] = "select" => installed[c] # Nil /\ discCount[c] = 0
          /\ connPc[c] = "ended" => installed[c] # Nil /\ discCount[c] = 1
    /\ lastEnd.conn # Nil =>
          /\ lastEnd.by \in {"cancel", "ping", "shutdown"}
          /\ lastEnd.session = installed[lastEnd.conn]
          /\ discCount[lastEnd.conn] = 1

\* the handle of an installed connection returned on shutdown and its one
\* call was made; another connection was rejected at admission
ShutdownEndsInstalledNextToRejected ==
    /\ lastEnd.conn # Nil
    /\ lastEnd.by = "shutdown"
    /\ discCount[lastEnd.conn] = 1
    /\ \E d \in Conns :
          /\ connPc[d] = "rejected"
          /\ auth[d].ok
          /\ discCount[d] = 0

(***************************************************************************)
(* C22: a message that does not parse is logged and dropped, no handler is *)
(* invoked for it and no unhandled-message warning is logged; handle stays *)
(* in its select and the reader reads on, and a message that parses is     *)
(* offered to the handlers whatever was dropped on the connection before.  *)
(***************************************************************************)
MalformedDroppedLoopContinues ==
    lastMsg.conn # Nil =>
       LET c == lastMsg.conn IN
       /\ connPc[c] = "select"
       /\ readerPc[c] = "read"
       /\ lastMsg.raw = "garbage" =>
             /\ lastMsg.errLogged
             /\ lastMsg.invoked = <<>>
             /\ ~lastMsg.warned
             /\ dropped[c]
       /\ lastMsg.raw = "json" =>
             /\ ~lastMsg.errLogged
             /\ lastMsg.invoked # <<>>

\* a message that parses is handled on a connection that dropped an
\* earlier message
HandledAfterDropped ==
    /\ lastMsg.conn # Nil
    /\ lastMsg.raw = "json"
    /\ lastMsg.handled
    /\ dropped[lastMsg.conn]

\* the handlers in the order in which a message is offered to them
OfferOrder == <<Local>> \o handlers

(***************************************************************************)
(* C23: a parsed message is offered to the local handler first and then to *)
(* the registered handlers in the order of their registration, up to and   *)
(* including the first that reports handled and to none after it; the      *)
(* unhandled-message warning is logged exactly when none reported handled. *)
(***************************************************************************)
OfferedInOrderUntilHandled ==
    (lastMsg.conn # Nil /\ lastMsg.raw = "json") =>
       LET n == Len(lastMsg.invoked) IN
       /\ n \in 1..Len(OfferOrder)
       /\ lastMsg.invoked = SubSeq(OfferOrder, 1, n)
       /\ \A i \in 1..(n - 1) : lastMsg.invoked[i] \notin lastMsg.willing
       /\ n < Len(OfferOrder) => lastMsg.invoked[n] \in lastMsg.willing
       /\ lastMsg.handled <=> lastMsg.invoked[n] \in lastMsg.willing
       /\ lastMsg.warned <=> ~lastMsg.handled
       /\ handlers = [i \in 1..Len(handlers) |-> i]

\* the local handler declined, the first registered handler reported handled
\* (no warning); the handler registered after it was not invoked
FirstRegisteredHandles ==
    /\ lastMsg.conn # Nil
    /\ Len(handlers) > 1
    /\ lastMsg.raw = "json"
    /\ lastMsg.invoked = <<Local, 1>>
    /\ lastMsg.handled
    /\ ~lastMsg.warned

\* a PLI packet is written for a track only while its ticker runs
NoPLIAfterTickerStopped ==
    lastPLI.track # Nil => lastPLI.ticker = "running"

\* the ticker of a track runs exactly while the track is read
TickerRunsWhileRead ==
    \A t \in Tracks : ticker[t] = "running" <=> trackPc[t] = "reading"

(***************************************************************************)
(* C24: the PLI ticker of an accepted track runs exactly while the track   *)
(* is read; once the read has failed and the ticker is stopped, no PLI     *)
(* packet is written for the track any more and its PLI goroutine ends.    *)
(***************************************************************************)
PLITaskLivesWithTrack ==
    /\ []TickerRunsWhileRead
    /\ \A t \in Tracks : (ticker[t] = "stopped") ~> (pliPc[t] = "exited")
    /\ []NoPLIAfterTickerStopped

====
